---- MODULE Spec2Model ----
(***************************************************************************)
(* Model of the tariff crawler in src/main.py: the source loop of the      *)
(* main entry point, the thread-local browser cache, Browser.go_to_url     *)
(* and the observe / decide / act loop of process_tariff_source.           *)
(***************************************************************************)
EXTENDS Integers, Sequences, FiniteSets, TLC

(***************************************************************************)
(* Bounds of the model (not program constants).                            *)
(***************************************************************************)
\* longest test_sources.json list that is enumerated
MaxSources == 3
\* longest array of updates a model response carries
MaxUpdates == 2

(***************************************************************************)
(* Program constants.                                                      *)
(***************************************************************************)
\* main.py:497  max_sources = 2
max_sources == 2
\* main.py:354  max_iterations = 5
max_iterations == 5
\* main.py:126  go_to_url(self, url, retries=3)
retries == 3
\* main.py:171  get_thread_browser(max_retries=3)
max_retries == 3

Min(a, b) == IF a < b THEN a ELSE b

(***************************************************************************)
(* Strings are sequences of characters, so that str.startswith is a real   *)
(* prefix test.  NoneValue is Python's None (dict.get of a missing key).   *)
(***************************************************************************)
NoneValue == <<"None">>

startswith(s, prefix) ==
    /\ Len(s) >= Len(prefix)
    /\ SubSeq(s, 1, Len(prefix)) = prefix

\* Python truthiness of a str-or-None value: None and "" are falsy
str_truthy(s) == s # NoneValue /\ Len(s) > 0

Links == { NoneValue,
           <<>>,
           <<"f", "t", "p", ":", "a">>,
           <<"h", "t", "t", "p", ":", "a">> }

Markets == {"TM", "KZ"}

Statuses == {"1", "0"}

Source == [status : Statuses, market : Markets, link : Links]

\* the lists test_sources.json may hold
SourceLists == UNION { [1..n -> Source] : n \in 0..MaxSources }

\* main.py:493  [s for s in sources if s.get("status") == "1"]
is_active(s) == s.status = "1"

active_sources(sources) == SelectSeq(sources, is_active)

\* mutant: the slice takes one entry too many
truncate_one_more(seq, n) == SubSeq(seq, 1, Min(n + 1, Len(seq)))

\* main.py:498  active_sources[:max_sources]
truncate(seq, n) == SubSeq(seq, 1, Min(n, Len(seq)))

\* mutant: only the emptiness test, any scheme accepted
invalid_url_empty_only(url) == ~str_truthy(url)

\* main.py:502  not url or url.startswith("http") is False   (the skip test)
invalid_url(url) ==
    \/ ~str_truthy(url)
    \/ ~startswith(url, <<"h", "t", "t", "p">>)

(***************************************************************************)
(* Model responses.  A response is either a transport error of the         *)
(* completion call or a text, a sequence of tokens: the brackets and the   *)
(* comma are the JSON punctuation, "p" is a word of prose, every other     *)
(* token is one "key": value member of an object ("u1", "u2" stand for     *)
(* the members of one tariff update).                                      *)
(***************************************************************************)
Updates == {"u1", "u2"}

ActionMembers == {"action:click", "action:type", "action:scroll"}

Members == Updates \cup ActionMembers \cup {"xpath:x", "text:t"}

\* the text of an array of update objects
RECURSIVE array_body(_)
array_body(us) ==
    IF Len(us) = 0 THEN <<>>
    ELSE IF Len(us) = 1 THEN <<"{", us[1], "}">>
    ELSE <<"{", us[1], "}", ",">> \o array_body(Tail(us))

array_text(us) == <<"[">> \o array_body(us) \o <<"]">>

UpdateLists == UNION { [1..n -> Updates] : n \in 0..MaxUpdates }

ArrayTexts == { array_text(us) : us \in UpdateLists }

ObjectTexts == {
    <<"{", "}">>,
    <<"{", "action:click", ",", "xpath:x", "}">>,
    <<"{", "action:type", ",", "xpath:x", ",", "text:t", "}">>,
    <<"{", "action:scroll", ",", "xpath:x", "}">>,
    <<"{", "xpath:x", "}">> }

\* texts that are not one JSON payload: prose only, an object with a trailing
\* comma (the span does not decode), an array that is never closed (the
\* regex then matches the object inside it)
BrokenTexts == {
    <<"p", "p">>,
    <<"{", "action:click", ",", "}">>,
    <<"[", "{", "u1", "}">> }

\* a JSON payload with leading and trailing prose
in_prose(t) == <<"p">> \o t \o <<"p">>

Texts ==
    ArrayTexts \cup ObjectTexts \cup BrokenTexts
    \cup { in_prose(t) : t \in {array_text(<<"u1">>), <<"{", "}">>} }

\* what the prose around a payload is made of: words and stray brackets
ProseTokens == {"p", "[", "]", "{", "}"}

MaxProse == 2

Proses == UNION { [1..n -> ProseTokens] : n \in 0..MaxProse }

Payloads == {
    array_text(<<"u1">>),
    <<"[", "]">>,
    <<"{", "action:click", ",", "xpath:x", "}">>,
    <<"{", "}">> }

\* prose, one JSON payload, prose
ProseTexts == { pre \o load \o post : pre \in Proses, load \in Payloads, post \in Proses }

\* no decision call was made yet
NoResponse == [error |-> FALSE, text |-> <<>>]

ModelResponses ==
    {[error |-> TRUE, text |-> <<>>]} \cup { [error |-> FALSE, text |-> t] : t \in Texts }

(***************************************************************************)
(* Python values returned by json.loads: a list (items: one sequence of    *)
(* members per element) or a dict (items: its members).                    *)
(***************************************************************************)
EmptyDict == [t |-> "dict", items |-> <<>>]

\* mutant: whatever is not a type action is clicked
click_unless_type(items) ==
    IF \E k \in 1..Len(items) : items[k] = "action:type" THEN "type" ELSE "click"

\* action_obj.get("action"): the value of the (last) "action" member, or None
RECURSIVE get_action(_)
get_action(items) ==
    IF Len(items) = 0 THEN "None"
    ELSE LET last == items[Len(items)]
         IN  IF last = "action:click" THEN "click"
             ELSE IF last = "action:type" THEN "type"
             ELSE IF last = "action:scroll" THEN "scroll"
             ELSE get_action(SubSeq(items, 1, Len(items) - 1))


\* mutant: an object without an "action" member counts as no decision too
falsy_or_no_action(obj) ==
    Len(obj.items) = 0 \/ (obj.t = "dict" /\ get_action(obj.items) = "None")

\* `not action_obj`: an empty dict and an empty list are both falsy
falsy(obj) == Len(obj.items) = 0

\* isinstance(action_obj, list)
is_list(obj) == obj.t = "list"

Positions(s, tok) == { k \in 1..Len(s) : s[k] = tok }

Max(S) == CHOOSE m \in S : \A k \in S : k <= m

\* re.search(r"(\[.*\]|\{.*\})", text, re.DOTALL): the leftmost position at
\* which one alternative matches; .* is greedy, so the span runs to the last
\* closing bracket of that kind.  <<0, 0>> when there is no match.
span_starts(s) ==
    { k \in 1..Len(s) :
        \/ s[k] = "[" /\ \E q \in Positions(s, "]") : q > k
        \/ s[k] = "{" /\ \E q \in Positions(s, "}") : q > k }

re_search(s) ==
    IF span_starts(s) = {} THEN <<0, 0>>
    ELSE LET p == CHOOSE k \in span_starts(s) : \A j \in span_starts(s) : k <= j
             close == IF s[p] = "[" THEN "]" ELSE "}"
         IN <<p, Max(Positions(s, close))>>

\* json.loads of an object: "{" [member ("," member)*] "}".
\* Result: [ok, items, next] with next the position after the "}".
RECURSIVE members_from(_, _, _)
members_from(s, k, acc) ==
    IF k > Len(s) \/ s[k] \notin Members THEN [ok |-> FALSE, items |-> <<>>, next |-> k]
    ELSE IF k + 1 > Len(s) THEN [ok |-> FALSE, items |-> <<>>, next |-> k]
    ELSE IF s[k + 1] = "}" THEN [ok |-> TRUE, items |-> Append(acc, s[k]), next |-> k + 2]
    ELSE IF s[k + 1] = "," THEN members_from(s, k + 2, Append(acc, s[k]))
    ELSE [ok |-> FALSE, items |-> <<>>, next |-> k]

loads_object(s, k) ==
    IF k + 1 > Len(s) \/ s[k] # "{" THEN [ok |-> FALSE, items |-> <<>>, next |-> k]
    ELSE IF s[k + 1] = "}" THEN [ok |-> TRUE, items |-> <<>>, next |-> k + 2]
    ELSE members_from(s, k + 1, <<>>)

\* json.loads of an array: "[" [element ("," element)*] "]", an element
\* being an object or again an array.  An object element is kept as the
\* sequence of its members, an array element as its text.
RECURSIVE elements_from(_, _, _)
RECURSIVE loads_array(_, _)
elements_from(s, k, acc) ==
    LET nested == k <= Len(s) /\ s[k] = "["
        e == IF nested THEN loads_array(s, k) ELSE loads_object(s, k)
        item == IF nested THEN SubSeq(s, k, e.next - 1) ELSE e.items
    IN  IF ~e.ok \/ e.next > Len(s) THEN [ok |-> FALSE, items |-> <<>>, next |-> k]
        ELSE IF s[e.next] = "]"
             THEN [ok |-> TRUE, items |-> Append(acc, item), next |-> e.next + 1]
        ELSE IF s[e.next] = ","
             THEN elements_from(s, e.next + 1, Append(acc, item))
        ELSE [ok |-> FALSE, items |-> <<>>, next |-> k]

loads_array(s, k) ==
    IF k + 1 > Len(s) \/ s[k] # "[" THEN [ok |-> FALSE, items |-> <<>>, next |-> k]
    ELSE IF s[k + 1] = "]" THEN [ok |-> TRUE, items |-> <<>>, next |-> k + 2]
    ELSE elements_from(s, k + 1, <<>>)

\* json.loads(json_string): the whole string must be one value;
\* ok = FALSE is json.JSONDecodeError
json_loads(s) ==
    LET r == IF Len(s) > 0 /\ s[1] = "[" THEN loads_array(s, 1) ELSE loads_object(s, 1)
    IN  IF r.ok /\ r.next = Len(s) + 1
        THEN [ok |-> TRUE,
              value |-> [t |-> IF s[1] = "[" THEN "list" ELSE "dict", items |-> r.items]]
        ELSE [ok |-> FALSE, value |-> EmptyDict]

\* main.py:282-295 / 323-335: the regex, json.loads, {} when nothing parses
parse_response(text) ==
    LET m == re_search(text)
    IN  IF m[1] = 0 THEN EmptyDict
        ELSE json_loads(SubSeq(text, m[1], m[2])).value

\* what the body of a decision call raises on a response: the completion
\* call raises on a transport or timeout error (main.py:275), json.loads
\* raises JSONDecodeError on a span that is not JSON (main.py:287)
raised_by(resp) ==
    IF resp.error THEN "Exception"
    ELSE LET m == re_search(resp.text)
         IN  IF m[1] # 0 /\ ~json_loads(SubSeq(resp.text, m[1], m[2])).ok
             THEN "JSONDecodeError"
             ELSE "none"

\* mutant: only the inner handler, no `except Exception` around the call
handled_json_only(exc) == exc = "JSONDecodeError"

\* main.py:293-298 / 333-338: `except json.JSONDecodeError` inside,
\* `except Exception` outside: every exception is turned into {}
handled(exc) == exc \in {"JSONDecodeError", "Exception"}

\* a decision call lets an exception out to the interaction loop
propagates(resp) == raised_by(resp) # "none" /\ ~handled(raised_by(resp))

\* main.py:251-298: any exception of the call (transport, timeout) gives {}
analyze_page_for_action(resp) ==
    IF resp.error THEN EmptyDict ELSE parse_response(resp.text)

\* main.py:300-338
analyze_page_for_action_html_only(resp) ==
    IF resp.error THEN EmptyDict ELSE parse_response(resp.text)

\* the threads that call get_thread_browser concurrently, and how many
\* times each of them calls it
Workers == {"w1", "w2"}
MaxGets == 2

NoWorkers == [w \in Workers |-> 0]

(***************************************************************************)
(* State.                                                                  *)
(***************************************************************************)
VARIABLES
    batch,                \* active_sources[:max_sources], the list the source loop walks
    idx,                  \* how many entries of batch the source loop has taken
    pc,                   \* where the (single) main thread is
    thread_local_browser, \* thread_local.browser: 0 = no such attribute, else the Browser
    created,              \* how many Browser objects were constructed
    quitted,              \* the Browser objects whose driver has been quit
    browser_init_lock,    \* TRUE while browser_init_lock is held
    attempt,              \* loop variable of get_thread_browser
    market,               \* process_tariff_source: source.get("market")
    nav_log,              \* go_to_url: the outcome of each attempt made, in order
    nav_delays,           \* go_to_url: the time.sleep arguments, in order
    i,                    \* the interaction loop's variable
    observations,         \* how many page captures (html + screenshot) this run made
    action_obj,           \* the decision the loop holds
    calls,                \* the decision calls of the current iteration, in order
    visual_obj,           \* what the visual call of the current iteration returned
    resp,                 \* the response the latest decision call received
    html,                 \* the capture the loop holds (its number in this run, 0 = none)
    call_obs,             \* the capture each decision call of the iteration was given
    acts,                 \* the click / type primitives this run invoked, in order
    decisions,            \* the action each iteration dispatched on, in order
    saved,                \* the save_results calls of this run: [market, updates]
    quits,                \* how many times this run called browser.quit()
    terminatedBy,         \* how this run ended ("none" while it runs)
    invoked,              \* the batch positions process_tariff_source was called on
    skipped,              \* the batch positions skipped for their URL
    threw,                \* the batch positions whose processing raised to the source loop
    wpc,                  \* threads calling get_thread_browser: where each one is
    thread_local,         \* thread_local.browser of each thread (0 = no such attribute)
    wattempt,             \* each thread's loop variable `attempt`
    wlog,                 \* the outcome of each Browser() call of a thread's current get
    wsleeps,              \* the time.sleep arguments of a thread's current get
    wresult,              \* how a thread's latest get ended: "none", "returned", "raised"
    gets,                 \* how many times each thread called get_thread_browser
    got,                  \* the Browser objects returned to each thread, in order
    owner                 \* for each Browser object, the thread that constructed it

orch_vars == <<batch, idx, invoked, skipped, threw>>
pool_vars == <<thread_local_browser, created, quitted, browser_init_lock, attempt>>
nav_vars  == <<nav_log, nav_delays>>
loop_vars == <<i, observations, action_obj, calls, visual_obj, acts, decisions, saved,
               resp, html, call_obs>>
run_vars  == <<market, quits, terminatedBy>>
workers_vars == <<wpc, thread_local, wattempt, wlog, wsleeps, wresult, gets, got, owner>>

vars == <<batch, idx, pc, thread_local_browser, created, quitted, browser_init_lock,
          attempt, market, nav_log, nav_delays, i, observations, action_obj, calls,
          visual_obj, acts, decisions, saved, quits, terminatedBy, invoked, skipped,
          threw, resp, html, call_obs, wpc, thread_local, wattempt, wlog, wsleeps,
          wresult, gets, got, owner>>

\* main.py:486-497: the sources are loaded, filtered and truncated; nothing ran yet
Init ==
    /\ \E sources \in SourceLists :
          batch = truncate(active_sources(sources), max_sources)
    /\ idx = 0
    /\ pc = "main"
    /\ thread_local_browser = 0
    /\ created = 0
    /\ quitted = {}
    /\ browser_init_lock = FALSE
    /\ attempt = 0
    /\ market = "none"
    /\ nav_log = <<>>
    /\ nav_delays = <<>>
    /\ i = 0
    /\ observations = 0
    /\ action_obj = EmptyDict
    /\ calls = <<>>
    /\ visual_obj = EmptyDict
    /\ resp = NoResponse
    /\ html = 0
    /\ call_obs = <<>>
    /\ acts = <<>>
    /\ decisions = <<>>
    /\ saved = <<>>
    /\ quits = 0
    /\ terminatedBy = "none"
    /\ invoked = {}
    /\ skipped = {}
    /\ threw = {}
    /\ wpc = [w \in Workers |-> "idle"]
    /\ thread_local = NoWorkers
    /\ wattempt = NoWorkers
    /\ wlog = [w \in Workers |-> <<>>]
    /\ wsleeps = [w \in Workers |-> <<>>]
    /\ wresult = [w \in Workers |-> "none"]
    /\ gets = NoWorkers
    /\ got = [w \in Workers |-> <<>>]
    /\ owner = <<>>

(***************************************************************************)
(* The source loop of the main entry point (main.py:498-518).              *)
(***************************************************************************)
\* main.py:502-504: a source without a usable URL is skipped
SkipSource ==
    /\ pc = "main"
    /\ idx < Len(batch)
    /\ invalid_url(batch[idx + 1].link)
    /\ idx' = idx + 1
    /\ skipped' = skipped \cup {idx + 1}
    /\ UNCHANGED <<workers_vars, batch, invoked, threw, pc, pool_vars, nav_vars, loop_vars, run_vars>>

\* main.py:514, 343-346: process_tariff_source(source) is entered
CallProcess ==
    /\ pc = "main"
    /\ idx < Len(batch)
    /\ ~invalid_url(batch[idx + 1].link)
    /\ idx' = idx + 1
    /\ invoked' = invoked \cup {idx + 1}
    /\ market' = batch[idx + 1].market
    /\ pc' = "get_thread_browser"
    /\ nav_log' = <<>>
    /\ nav_delays' = <<>>
    /\ i' = 0
    /\ observations' = 0
    /\ action_obj' = EmptyDict
    /\ calls' = <<>>
    /\ visual_obj' = EmptyDict
    /\ resp' = NoResponse
    /\ html' = 0
    /\ call_obs' = <<>>
    /\ acts' = <<>>
    /\ decisions' = <<>>
    /\ saved' = <<>>
    /\ quits' = 0
    /\ terminatedBy' = "none"
    /\ UNCHANGED <<workers_vars, batch, skipped, threw, pool_vars>>

\* main.py:518: the list is exhausted
ProcessingComplete ==
    /\ pc = "main"
    /\ idx = Len(batch)
    /\ pc' = "exit"
    /\ UNCHANGED <<workers_vars, orch_vars, pool_vars, nav_vars, loop_vars, run_vars>>

(***************************************************************************)
(* get_thread_browser (main.py:171-193).                                   *)
(***************************************************************************)
\* main.py:181-182, 193: the cached Browser is returned, or the lock is taken
GetThreadBrowser ==
    /\ pc = "get_thread_browser"
    /\ IF thread_local_browser # 0
       THEN /\ pc' = "go_to_url"
            /\ UNCHANGED <<browser_init_lock, attempt>>
       ELSE /\ browser_init_lock = FALSE
            /\ browser_init_lock' = TRUE
            /\ attempt' = 0
            /\ pc' = "Browser"
    /\ UNCHANGED <<workers_vars, orch_vars, thread_local_browser, created, quitted, nav_vars,
                   loop_vars, run_vars>>

\* main.py:183-192: one pass of the retry loop around Browser()
BrowserInit ==
    /\ pc = "Browser"
    /\ \E ok \in BOOLEAN :
          IF ok
          THEN /\ created' = created + 1
               /\ thread_local_browser' = created + 1
               /\ browser_init_lock' = FALSE
               /\ pc' = "go_to_url"
               /\ UNCHANGED <<attempt, idx, threw, terminatedBy>>
          ELSE IF attempt = max_retries - 1
          THEN \* raise: leaves the with block and process_tariff_source,
               \* caught at main.py:515
               /\ browser_init_lock' = FALSE
               /\ terminatedBy' = "InitializationError"
               /\ threw' = threw \cup {idx}
               /\ pc' = "main"
               /\ UNCHANGED <<attempt, idx, created, thread_local_browser>>
          ELSE /\ attempt' = attempt + 1
               /\ UNCHANGED <<pc, idx, threw, terminatedBy, created,
                              thread_local_browser, browser_init_lock>>
    /\ UNCHANGED <<workers_vars, batch, invoked, skipped, quitted, market, quits, nav_vars, loop_vars>>


(***************************************************************************)
(* Browser.go_to_url (main.py:126-142).                                    *)
(***************************************************************************)
\* what one attempt can do: the page loads ("ok"), it loads but is a data:
\* URI or a 404 page ("invalid"), the ready-state wait times out, or the
\* driver raises.  A driver that was quit raises on every command.
NavOutcomes(b) ==
    IF b \in quitted THEN {"exception"} ELSE {"ok", "invalid", "timeout", "exception"}

\* mutant: the fixed delay of get_thread_browser (time.sleep(2)) used here too
backoff_fixed(n) == 2

\* main.py:141  time.sleep(2 ** attempt)
backoff(n) == 2 ^ n

\* mutant: the caller does not test the value go_to_url returned
go_to_url_result_ignored(outcome, n) ==
    IF outcome \in {"ok", "invalid"} \/ n = retries - 1 THEN "True" ELSE "again"

\* mutant: the except branch gives up instead of looping
go_to_url_result_no_retry(outcome, n) ==
    IF outcome = "ok" THEN "True" ELSE "False"

\* main.py:127-142: what the loop does with the outcome of attempt number n
\* (n counts from 0): "True" / "False" are returned, "again" repeats the loop
go_to_url_result(outcome, n) ==
    IF outcome = "ok" THEN "True"
    ELSE IF outcome = "invalid" THEN "False"
    ELSE IF n = retries - 1 THEN "False"
    ELSE "again"

\* main.py:139-141: the except branch sleeps, also after the last attempt
go_to_url_sleeps(outcome, n) ==
    IF outcome \in {"timeout", "exception"} THEN <<backoff(n)>> ELSE <<>>

\* mutant: the navigation check placed before the try block
leave_without_finally_on_navigation(term) ==
    IF term = "NavigationFailed" THEN "return" ELSE "finally"

\* mutant: an except clause that re-raises in place of the finally block
leave_without_finally_on_exception(term) ==
    IF term = "Exception" THEN "return" ELSE "finally"

\* main.py:411-412: every way out of the try block passes through finally
leave(term) == "finally"

GoToUrl ==
    /\ pc = "go_to_url"
    /\ \E outcome \in NavOutcomes(thread_local_browser) :
          LET n == Len(nav_log)
              r == go_to_url_result(outcome, n)
          IN  /\ nav_log' = Append(nav_log, outcome)
              /\ nav_delays' = nav_delays \o go_to_url_sleeps(outcome, n)
              /\ IF r = "True"
                 THEN /\ pc' = "observe"
                      /\ UNCHANGED terminatedBy
                 ELSE IF r = "False"
                 THEN \* main.py:349-351
                      /\ terminatedBy' = "NavigationFailed"
                      /\ pc' = leave("NavigationFailed")
                 ELSE UNCHANGED <<pc, terminatedBy>>
    /\ UNCHANGED <<workers_vars, orch_vars, pool_vars, loop_vars, market, quits>>

\* mutant: the page is captured once and the first capture is reused
observed_first_only(capture, held) == IF held = 0 THEN capture ELSE held

\* main.py:359: `html = browser.get_page_source()` rebinds the local to the
\* capture just made, in every iteration
observed(capture, held) == capture

(***************************************************************************)
(* The interaction loop of process_tariff_source (main.py:355-409).        *)
(***************************************************************************)
\* main.py:359-360: get_page_source and capture_screenshot; a driver error
\* is not caught inside the loop
Observe ==
    /\ pc = "observe"
    /\ \E ok \in BOOLEAN :
          IF ok
          THEN /\ observations' = observations + 1
               /\ html' = observed(observations + 1, html)
               /\ pc' = "visual"
               /\ UNCHANGED terminatedBy
          ELSE /\ terminatedBy' = "Exception"
               /\ pc' = leave("Exception")
               /\ UNCHANGED <<observations, html>>
    /\ calls' = <<>>
    /\ call_obs' = <<>>
    /\ nav_log' = <<>>
    /\ nav_delays' = <<>>
    /\ UNCHANGED <<workers_vars, orch_vars, pool_vars, i, action_obj, visual_obj, acts, decisions,
                   saved, resp, market, quits>>

\* main.py:363-366
DecideVisual ==
    /\ pc = "visual"
    /\ \E r \in ModelResponses :
          /\ resp' = r
          /\ IF propagates(r)
             THEN /\ terminatedBy' = "Exception"
                  /\ pc' = leave("Exception")
                  /\ UNCHANGED <<action_obj, visual_obj>>
             ELSE LET obj == analyze_page_for_action(r)
                  IN  /\ action_obj' = obj
                      /\ visual_obj' = obj
                      /\ pc' = IF falsy(obj) THEN "html_only" ELSE "act"
                      /\ UNCHANGED terminatedBy
    /\ calls' = Append(calls, "visual")
    /\ call_obs' = Append(call_obs, html)
    /\ UNCHANGED <<workers_vars, orch_vars, pool_vars, nav_vars, i, observations, acts, decisions,
                   saved, html, market, quits>>

\* main.py:367-371
DecideHtmlOnly ==
    /\ pc = "html_only"
    /\ \E r \in ModelResponses :
          /\ resp' = r
          /\ IF propagates(r)
             THEN /\ terminatedBy' = "Exception"
                  /\ pc' = leave("Exception")
                  /\ UNCHANGED action_obj
             ELSE LET obj == analyze_page_for_action_html_only(r)
                  IN  /\ action_obj' = obj
                      /\ IF falsy(obj)
                         THEN /\ terminatedBy' = "NoDecision"
                              /\ pc' = leave("NoDecision")
                         ELSE /\ pc' = "act"
                              /\ UNCHANGED terminatedBy
    /\ calls' = Append(calls, "html_only")
    /\ call_obs' = Append(call_obs, html)
    /\ UNCHANGED <<workers_vars, orch_vars, pool_vars, nav_vars, i, observations, visual_obj, acts,
                   decisions, saved, html, market, quits>>

\* main.py:373-379: a list is saved and the function returns; an error of
\* save_results (the file cannot be written) is not caught here
Extract ==
    /\ pc = "act"
    /\ is_list(action_obj)
    /\ decisions' = Append(decisions, "extract")
    /\ saved' = Append(saved, [market |-> market, updates |-> action_obj.items])
    /\ \E ok \in BOOLEAN :
          /\ terminatedBy' = IF ok THEN "Extracted" ELSE "Exception"
          /\ pc' = leave(terminatedBy')
    /\ UNCHANGED <<workers_vars, orch_vars, pool_vars, nav_vars, i, observations, action_obj, calls,
                   visual_obj, acts, resp, html, call_obs, market, quits>>

\* mutant: the bound of the for loop off by one
NextIteration_off_by_one ==
    /\ i' = i + 1
    /\ IF i + 1 > max_iterations
       THEN /\ terminatedBy' = "MaxIterations"
            /\ pc' = "finally"
       ELSE /\ pc' = "observe"
            /\ UNCHANGED terminatedBy

\* main.py:355, 408-409: the next pass of the for loop, or its else branch
NextIteration ==
    /\ i' = i + 1
    /\ IF i + 1 = max_iterations
       THEN /\ terminatedBy' = "MaxIterations"
            /\ pc' = leave("MaxIterations")
       ELSE /\ pc' = "observe"
            /\ UNCHANGED terminatedBy

\* what a click or type primitive can do: succeed, fail with
\* NoSuchElementException / TimeoutException, or raise anything else
ActOutcomes == {"ok", "not_found", "exception"}

\* main.py:388-392 (click_element, 158-169) and 393-404 (type)
Interact(name) ==
    /\ pc = "act"
    /\ ~is_list(action_obj)
    /\ get_action(action_obj.items) = name
    /\ decisions' = Append(decisions, name)
    /\ acts' = Append(acts, name)
    /\ \E outcome \in ActOutcomes :
          IF outcome = "ok" THEN NextIteration
          ELSE /\ terminatedBy' = IF outcome = "not_found" THEN "ActionFailed"
                                  ELSE "Exception"
               /\ pc' = leave(terminatedBy')
               /\ UNCHANGED i
    /\ UNCHANGED <<workers_vars, orch_vars, pool_vars, nav_vars, observations, action_obj, calls,
                   visual_obj, saved, resp, html, call_obs, market, quits>>

Click == Interact("click")

Type == Interact("type")

\* main.py:405-407
UnknownAction ==
    /\ pc = "act"
    /\ ~is_list(action_obj)
    /\ get_action(action_obj.items) \notin {"click", "type"}
    /\ decisions' = Append(decisions, "unknown")
    /\ terminatedBy' = "ActionFailed"
    /\ pc' = leave("ActionFailed")
    /\ UNCHANGED <<workers_vars, orch_vars, pool_vars, nav_vars, i, observations, action_obj, calls,
                   visual_obj, acts, saved, resp, html, call_obs, market, quits>>

\* main.py:411-412, 152-156: browser.quit(); an error of driver.quit() is logged
Finally ==
    /\ pc = "finally"
    /\ quits' = quits + 1
    /\ quitted' = quitted \cup {thread_local_browser}
    /\ pc' = "return"
    /\ UNCHANGED <<workers_vars, orch_vars, thread_local_browser, created, browser_init_lock, attempt,
                   nav_vars, loop_vars, market, terminatedBy>>

\* process_tariff_source returns or raises to main.py:515-516
Return ==
    /\ pc = "return"
    /\ threw' = IF terminatedBy = "Exception" THEN threw \cup {idx} ELSE threw
    /\ pc' = "main"
    /\ UNCHANGED <<workers_vars, batch, idx, invoked, skipped, pool_vars, nav_vars, loop_vars, run_vars>>

Next ==
    \/ SkipSource
    \/ CallProcess
    \/ ProcessingComplete
    \/ GetThreadBrowser
    \/ BrowserInit
    \/ GoToUrl
    \/ Observe
    \/ DecideVisual
    \/ DecideHtmlOnly
    \/ Extract
    \/ Click
    \/ Type
    \/ UnknownAction
    \/ Finally
    \/ Return

Spec == Init /\ [][Next]_vars

(***************************************************************************)
(* get_thread_browser called by several threads (main.py:71-72, 171-193).  *)
(* thread_local is a threading.local(): each thread reads and writes its   *)
(* own `browser` attribute; browser_init_lock is one Lock for all threads. *)
(***************************************************************************)
\* everything of the source loop, which does not run here
main_thread_vars == <<orch_vars, pc, thread_local_browser, quitted, attempt, nav_vars,
                      loop_vars, run_vars>>

PoolInit ==
    /\ batch = <<>>
    /\ idx = 0
    /\ pc = "exit"
    /\ thread_local_browser = 0
    /\ created = 0
    /\ quitted = {}
    /\ browser_init_lock = FALSE
    /\ attempt = 0
    /\ market = "none"
    /\ nav_log = <<>>
    /\ nav_delays = <<>>
    /\ i = 0
    /\ observations = 0
    /\ action_obj = EmptyDict
    /\ calls = <<>>
    /\ visual_obj = EmptyDict
    /\ resp = NoResponse
    /\ html = 0
    /\ call_obs = <<>>
    /\ acts = <<>>
    /\ decisions = <<>>
    /\ saved = <<>>
    /\ quits = 0
    /\ terminatedBy = "none"
    /\ invoked = {}
    /\ skipped = {}
    /\ threw = {}
    /\ wpc = [w \in Workers |-> "idle"]
    /\ thread_local = NoWorkers
    /\ wattempt = NoWorkers
    /\ wlog = [w \in Workers |-> <<>>]
    /\ wsleeps = [w \in Workers |-> <<>>]
    /\ wresult = [w \in Workers |-> "none"]
    /\ gets = NoWorkers
    /\ got = [w \in Workers |-> <<>>]
    /\ owner = <<>>

\* a thread calls get_thread_browser()
WCall(w) ==
    /\ wpc[w] = "idle"
    /\ gets[w] < MaxGets
    /\ gets' = [gets EXCEPT ![w] = @ + 1]
    /\ wlog' = [wlog EXCEPT ![w] = <<>>]
    /\ wsleeps' = [wsleeps EXCEPT ![w] = <<>>]
    /\ wresult' = [wresult EXCEPT ![w] = "none"]
    /\ wpc' = [wpc EXCEPT ![w] = "hasattr"]
    /\ UNCHANGED <<main_thread_vars, created, browser_init_lock, thread_local, wattempt,
                   got, owner>>

\* main.py:181: if not hasattr(thread_local, "browser")
WHasattr(w) ==
    /\ wpc[w] = "hasattr"
    /\ wpc' = [wpc EXCEPT ![w] = IF thread_local[w] # 0 THEN "return" ELSE "with"]
    /\ UNCHANGED <<main_thread_vars, created, browser_init_lock, thread_local, wattempt,
                   wlog, wsleeps, wresult, gets, got, owner>>

\* mutant: the with statement does not wait for the lock
acquirable_always(lock) == TRUE

\* Lock.acquire() of `with browser_init_lock` returns only when the lock is free
acquirable(lock) == lock = FALSE

\* mutant: the lock is acquired and released by hand, and not on the raise
lock_after_leaks_on_raise(how) == how = "raise"

\* the with block releases the lock however it is left ("break" or "raise")
lock_after(how) == FALSE

\* main.py:182-183: the lock is taken and the for loop starts
WWith(w) ==
    /\ wpc[w] = "with"
    /\ acquirable(browser_init_lock)
    /\ browser_init_lock' = TRUE
    /\ wattempt' = [wattempt EXCEPT ![w] = 0]
    /\ wpc' = [wpc EXCEPT ![w] = "Browser"]
    /\ UNCHANGED <<main_thread_vars, created, thread_local, wlog, wsleeps, wresult, gets,
                   got, owner>>

\* main.py:184-192: one pass of the retry loop: Browser() succeeds (break,
\* the with block is left), or fails for the last time (raise), or fails
\* and the thread sleeps 2 with the lock held
WBrowser(w) ==
    /\ wpc[w] = "Browser"
    /\ \E ok \in BOOLEAN :
          /\ wlog' = [wlog EXCEPT ![w] = Append(@, IF ok THEN "ok" ELSE "failed")]
          /\ IF ok
             THEN /\ created' = created + 1
                  /\ owner' = Append(owner, w)
                  /\ thread_local' = [thread_local EXCEPT ![w] = created + 1]
                  /\ browser_init_lock' = lock_after("break")
                  /\ wpc' = [wpc EXCEPT ![w] = "return"]
                  /\ UNCHANGED <<wattempt, wsleeps, wresult>>
             ELSE IF wattempt[w] = max_retries - 1
             THEN /\ browser_init_lock' = lock_after("raise")
                  /\ wresult' = [wresult EXCEPT ![w] = "raised"]
                  /\ wpc' = [wpc EXCEPT ![w] = "idle"]
                  /\ UNCHANGED <<created, owner, thread_local, wattempt, wsleeps>>
             ELSE /\ wsleeps' = [wsleeps EXCEPT ![w] = Append(@, 2)]
                  /\ wattempt' = [wattempt EXCEPT ![w] = @ + 1]
                  /\ UNCHANGED <<created, owner, thread_local, browser_init_lock,
                                 wresult, wpc>>
    /\ UNCHANGED <<main_thread_vars, gets, got>>

\* main.py:193: return thread_local.browser
WReturn(w) ==
    /\ wpc[w] = "return"
    /\ got' = [got EXCEPT ![w] = Append(@, thread_local[w])]
    /\ wresult' = [wresult EXCEPT ![w] = "returned"]
    /\ wpc' = [wpc EXCEPT ![w] = "idle"]
    /\ UNCHANGED <<main_thread_vars, created, browser_init_lock, thread_local, wattempt,
                   wlog, wsleeps, gets, owner>>

\* the steps of get_thread_browser a thread takes once it has called it
WStep(w) == WHasattr(w) \/ WWith(w) \/ WBrowser(w) \/ WReturn(w)

PoolNext == \E w \in Workers : WCall(w) \/ WStep(w)

PoolSpec == PoolInit /\ [][PoolNext]_vars

(***************************************************************************)
(* analyze_page_for_action applied to one response (main.py:251-298).      *)
(***************************************************************************)
ParseInit ==
    /\ batch = <<>>
    /\ idx = 0
    /\ pc = "visual"
    /\ thread_local_browser = 0
    /\ created = 0
    /\ quitted = {}
    /\ browser_init_lock = FALSE
    /\ attempt = 0
    /\ market = "none"
    /\ nav_log = <<>>
    /\ nav_delays = <<>>
    /\ i = 0
    /\ observations = 0
    /\ action_obj = EmptyDict
    /\ calls = <<>>
    /\ visual_obj = EmptyDict
    /\ resp \in [error : {FALSE}, text : ProseTexts]
    /\ html = 0
    /\ call_obs = <<>>
    /\ acts = <<>>
    /\ decisions = <<>>
    /\ saved = <<>>
    /\ quits = 0
    /\ terminatedBy = "none"
    /\ invoked = {}
    /\ skipped = {}
    /\ threw = {}
    /\ wpc = [w \in Workers |-> "idle"]
    /\ thread_local = NoWorkers
    /\ wattempt = NoWorkers
    /\ wlog = [w \in Workers |-> <<>>]
    /\ wsleeps = [w \in Workers |-> <<>>]
    /\ wresult = [w \in Workers |-> "none"]
    /\ gets = NoWorkers
    /\ got = [w \in Workers |-> <<>>]
    /\ owner = <<>>

\* the call analyze_page_for_action(html, screenshot, market) on the
\* response resp: it returns a value, or an exception leaves it
Analyze ==
    /\ pc = "visual"
    /\ calls' = <<"visual">>
    /\ IF propagates(resp)
       THEN /\ terminatedBy' = "Exception"
            /\ pc' = "raised"
            /\ UNCHANGED <<action_obj, visual_obj>>
       ELSE /\ action_obj' = analyze_page_for_action(resp)
            /\ visual_obj' = analyze_page_for_action(resp)
            /\ pc' = "returned"
            /\ UNCHANGED terminatedBy
    /\ UNCHANGED <<workers_vars, orch_vars, pool_vars, nav_vars, i, observations, acts,
                   decisions, saved, resp, html, call_obs, market, quits>>

ParseNext == Analyze

ParseSpec == ParseInit /\ [][ParseNext]_vars

\* a thread that is inside get_thread_browser is scheduled again; whether
\* a thread calls get_thread_browser at all is up to the thread
PoolFairSpec == PoolSpec /\ \A w \in Workers : WF_vars(WStep(w))


(***************************************************************************)
(* Vocabulary of the properties.                                           *)
(***************************************************************************)
\* the run variables describe a run of process_tariff_source that is over
RunOver == pc \in {"return", "main", "exit"} /\ terminatedBy # "none"

\* ... and that run had obtained a browser from get_thread_browser
RunOverWithSession == RunOver /\ terminatedBy # "InitializationError"

\* process_tariff_source is between get_thread_browser and its finally block
InTry == pc \in {"go_to_url", "observe", "visual", "html_only", "act"}

\* the decision NoDecision: the empty object {} (main.py:259, 269)
NoDecision(obj) == obj.t = "dict" /\ Len(obj.items) = 0

\* an object that has members but no "action" member
LacksAction(obj) ==
    /\ obj.t = "dict"
    /\ Len(obj.items) > 0
    /\ get_action(obj.items) = "None"

FailedAttempts == {"invalid", "timeout", "exception"}

(***************************************************************************)
(* C1: every run of process_tariff_source that obtained a browser calls    *)
(* browser.quit() exactly once, whatever branch ended it: not before the   *)
(* run leaves its try block, once when it has left it, never twice.        *)
(***************************************************************************)
C1_QuitExactlyOnce ==
    /\ quits <= 1
    /\ InTry \/ pc \in {"get_thread_browser", "Browser", "finally"} => quits = 0
    /\ RunOverWithSession => quits = 1
    /\ RunOver /\ terminatedBy = "InitializationError" => quits = 0

\* a run in which a click raised out of the loop body, and its quit happened
C1_Witness ==
    /\ pc = "main"
    /\ terminatedBy = "Exception"
    /\ Len(acts) >= 2
    /\ quits = 1

(***************************************************************************)
(* C2: when a run of the agent loop is over, save_results has been called  *)
(* with the source's market, whatever ended the run (Extracted,            *)
(* NoDecision, ActionFailed, MaxIterations, NavigationFailed).             *)
(***************************************************************************)
C2_AlwaysPersisted ==
    RunOver /\ terminatedBy \in {"Extracted", "NoDecision", "ActionFailed",
                                 "MaxIterations", "NavigationFailed"}
        => /\ Len(saved) = 1
           /\ saved[1].market = market

(***************************************************************************)
(* C3: the loop never makes more than max_iterations cycles; a run whose   *)
(* decisions were all interaction steps that succeeded makes exactly       *)
(* max_iterations cycles and ends with MaxIterations, and no run ends      *)
(* with MaxIterations after fewer.                                         *)
(***************************************************************************)
C3_ExactlyMaxIterations ==
    /\ i <= max_iterations
    /\ observations <= max_iterations
    /\ Len(decisions) <= max_iterations
    /\ Len(acts) <= max_iterations
    /\ pc \in {"observe", "visual", "html_only", "act"} => i < max_iterations
    /\ terminatedBy = "MaxIterations"
          => /\ i = max_iterations
             /\ observations = max_iterations
             /\ Len(acts) = max_iterations
             /\ decisions = acts
    /\ RunOver /\ Len(acts) = max_iterations
               /\ terminatedBy \notin {"ActionFailed", "Exception"}
          => terminatedBy = "MaxIterations"
    /\ RunOver /\ Len(acts) < max_iterations => terminatedBy # "MaxIterations"

\* a run that ended with MaxIterations after clicks and types
C3_Witness ==
    /\ RunOver
    /\ terminatedBy = "MaxIterations"
    /\ acts = <<"click", "type", "click", "type", "click">>


(***************************************************************************)
(* C4: k < max_iterations successful interaction steps followed by an      *)
(* array of updates: the k actions are executed in the decided order, the  *)
(* run ends with Extracted holding exactly the returned array, nothing is  *)
(* observed, decided or executed after it, and quit is called once.        *)
(* (A failing save_results is outside the claim: it ends in Exception.)    *)
(***************************************************************************)
C4_ScriptedExtraction ==
    /\ calls # <<>> /\ (is_list(visual_obj) \/ is_list(action_obj))
          => \/ pc = "act"
             \/ terminatedBy \in {"Extracted", "Exception"}
    /\ terminatedBy = "Extracted"
          => /\ Len(acts) < max_iterations
             /\ decisions = Append(acts, "extract")
             /\ observations = Len(acts) + 1
             /\ i = Len(acts)
             /\ Len(saved) = 1
             /\ saved[1].updates = action_obj.items
             /\ RunOver => quits = 1

(***************************************************************************)
(* C5: a decision call that returns a JSON array, of any length, is an     *)
(* extraction: the fallback is not called after a visual array, the run    *)
(* does not end as NoDecision, and the array is what is recorded.          *)
(***************************************************************************)
C5_ArrayIsExtraction ==
    /\ calls # <<>> /\ is_list(visual_obj)
          => calls = <<"visual">> /\ pc # "html_only"
    /\ calls # <<>> /\ is_list(action_obj)
          => /\ terminatedBy # "NoDecision"
             /\ pc # "act" => /\ terminatedBy \in {"Extracted", "Exception"}
                              /\ Len(saved) = 1
                              /\ saved[1].updates = action_obj.items

(***************************************************************************)
(* C6: in an iteration the visual call comes first, the HTML-only call is  *)
(* made exactly when the visual call yielded NoDecision and at most once,  *)
(* and a NoDecision of the fallback ends the run as NoDecision with no     *)
(* click or type in that iteration.                                        *)
(***************************************************************************)
C6_SingleFallback ==
    /\ calls \in {<<>>, <<"visual">>, <<"visual", "html_only">>}
    /\ (pc = "html_only" \/ Len(calls) = 2)
          <=> (calls # <<>> /\ NoDecision(visual_obj))
    /\ Len(calls) = 2 /\ NoDecision(action_obj)
          => /\ terminatedBy = "NoDecision"
             /\ decisions = acts
             /\ Len(acts) = i

(***************************************************************************)
(* C7 (as stated): an object with members but no "action" member is a      *)
(* NoDecision like {}: from the visual call it leads to the HTML-only      *)
(* fallback, and a run it ends does not end as ActionFailed.               *)
(***************************************************************************)
C7_LacksActionIsNoDecision ==
    /\ calls # <<>> /\ LacksAction(visual_obj)
          => pc = "html_only" \/ Len(calls) = 2
    /\ RunOver /\ LacksAction(action_obj) => terminatedBy # "ActionFailed"

(***************************************************************************)
(* C7 (amended): an object with members but no "action" member is          *)
(* dispatched as an unknown action: no fallback is called after a visual   *)
(* one, no click or type is invoked for it, and the run ends ActionFailed. *)
(***************************************************************************)
C7_LacksActionIsUnknownAction ==
    /\ calls # <<>> /\ LacksAction(visual_obj)
          => calls = <<"visual">> /\ pc # "html_only"
    /\ calls # <<>> /\ LacksAction(action_obj)
          => \/ pc = "act"
             \/ /\ terminatedBy = "ActionFailed"
                /\ decisions = Append(acts, "unknown")
                /\ Len(acts) = i

\* a run ended by a visual decision {"xpath": ...}
C7_Witness ==
    /\ RunOver
    /\ LacksAction(visual_obj)
    /\ calls = <<"visual">>
    /\ terminatedBy = "ActionFailed"

(***************************************************************************)
(* C8: a source whose processing raised does not stop the batch: every     *)
(* later valid source is processed, and its run is served a usable         *)
(* browser, so that its outcome is decided by its own page and decisions.  *)
(***************************************************************************)
C8_LaterSourceUnaffected ==
    /\ pc = "exit"
          => \A k \in 1..Len(batch) : ~invalid_url(batch[k].link) => k \in invoked
    /\ threw # {} /\ InTry => thread_local_browser \notin quitted

(***************************************************************************)
(* C9 (as stated): go_to_url returns failure only after `retries`          *)
(* attempts.                                                               *)
(***************************************************************************)
C9_FailureOnlyAfterAllAttempts ==
    terminatedBy = "NavigationFailed" => Len(nav_log) = retries

(***************************************************************************)
(* C9 (amended): go_to_url returns failure either after `retries`          *)
(* attempts that all failed by timeout or exception, or at once on the     *)
(* first attempt with an invalid page, without backoff; every attempt that *)
(* failed by timeout or exception is followed by a backoff delay and, if   *)
(* it was not the last, by another attempt.                                *)
(***************************************************************************)
C9_FailureAfterRetriesOrInvalidPage ==
    /\ Len(nav_log) <= retries
    /\ pc = "go_to_url"
          => /\ Len(nav_log) < retries
             /\ \A k \in 1..Len(nav_log) : nav_log[k] \in {"timeout", "exception"}
             /\ Len(nav_delays) = Len(nav_log)
    /\ terminatedBy = "NavigationFailed"
          => /\ Len(nav_log) >= 1
             /\ \A k \in 1..(Len(nav_log) - 1) : nav_log[k] \in {"timeout", "exception"}
             /\ \/ /\ nav_log[Len(nav_log)] = "invalid"
                   /\ Len(nav_delays) = Len(nav_log) - 1
                \/ /\ nav_log[Len(nav_log)] \in {"timeout", "exception"}
                   /\ Len(nav_log) = retries
                   /\ Len(nav_delays) = retries

\* a navigation given up on an invalid page after one retried timeout
C9_Witness ==
    /\ terminatedBy = "NavigationFailed"
    /\ nav_log = <<"timeout", "invalid">>
    /\ nav_delays = <<1>>

(***************************************************************************)
(* C10: attempts 1 and 2 fail, attempt 3 succeeds: go_to_url returns       *)
(* success after exactly 3 attempts, having slept 1 before attempt 2 and   *)
(* 2 before attempt 3 (2^(k-1) after the k-th failed attempt); no attempt  *)
(* follows a success.                                                      *)
(***************************************************************************)
C10_BackoffDoubles ==
    /\ \A k \in 1..Len(nav_delays) : nav_delays[k] = 2 ^ (k - 1)
    /\ \A k \in 1..(Len(nav_log) - 1) : nav_log[k] # "ok"
    /\ Len(nav_log) = 3 /\ nav_log[3] = "ok"
          => /\ pc = "observe"
             /\ terminatedBy = "none"
             /\ nav_log[1] \in FailedAttempts /\ nav_log[2] \in FailedAttempts
             /\ nav_delays = <<1, 2>>
    /\ Len(nav_log) >= 1 /\ nav_log[Len(nav_log)] = "ok" => pc = "observe"

\* success on the third attempt
C10_Witness ==
    /\ pc = "observe"
    /\ nav_log = <<"timeout", "exception", "ok">>
    /\ nav_delays = <<1, 2>>

\* a decision call of the current iteration let an exception out: the run
\* ended by an exception after a call, before anything was dispatched
DecisionCallRaised ==
    /\ terminatedBy = "Exception"
    /\ calls # <<>>
    /\ Len(decisions) = i
    /\ Len(acts) = i

\* the text has no "[...]" or "{...}" span at all
NoJsonSpan(r) == ~r.error /\ re_search(r.text) = <<0, 0>>

\* the span the pattern matched is not JSON
MalformedSpan(r) ==
    /\ ~r.error
    /\ re_search(r.text)[1] # 0
    /\ ~json_loads(SubSeq(r.text, re_search(r.text)[1], re_search(r.text)[2])).ok

(***************************************************************************)
(* C11: neither decision call lets an exception out to the loop; a         *)
(* transport or timeout error, a text without a JSON array/object and a    *)
(* text whose matched span is malformed JSON each give the empty object    *)
(* {}; after a transport error of the visual call the HTML-only call is    *)
(* the next step of the same iteration.                                    *)
(***************************************************************************)
C11_DecisionCallsNeverRaise ==
    /\ ~DecisionCallRaised
    /\ calls # <<>> /\ (resp.error \/ NoJsonSpan(resp) \/ MalformedSpan(resp))
          => NoDecision(action_obj)
    /\ calls = <<"visual">> /\ resp.error
          => /\ pc = "html_only"
             /\ observations = i + 1
    /\ Len(calls) = 2 /\ (resp.error \/ NoJsonSpan(resp) \/ MalformedSpan(resp))
          => terminatedBy = "NoDecision"

\* the visual call of the second iteration met a transport error and the
\* HTML-only call is about to be made
C11_Witness ==
    /\ pc = "html_only"
    /\ resp.error
    /\ i = 1
    /\ calls = <<"visual">>

\* as C11_Witness, for a matched span that is not JSON, on the fallback
C11_WitnessMalformed ==
    /\ Len(calls) = 2
    /\ MalformedSpan(resp)
    /\ terminatedBy = "NoDecision"

(***************************************************************************)
(* C12: every failure of a click or a type, whatever its cause, ends the   *)
(* loop with ActionFailed: no retry, no further observation or decision    *)
(* for the source, and no exception out of the loop.  (A click or type     *)
(* that did not succeed is the one with Len(acts) = i + 1.)                *)
(***************************************************************************)
C12_ActionFailureContained ==
    Len(acts) = i + 1
        => /\ terminatedBy = "ActionFailed"
           /\ observations = i + 1
           /\ Len(decisions) = i + 1
           /\ pc \in {"finally", "return", "main", "exit"}

Last(s) == s[Len(s)]

(***************************************************************************)
(* C15: when go_to_url fails the run ends with NavigationFailed before any *)
(* capture, decision call, click, type or save_results call was made for   *)
(* the source, and browser.quit() is still called.                         *)
(***************************************************************************)
C15_NavigationFailureEndsRun ==
    /\ nav_log # <<>> /\ pc # "go_to_url" /\ Last(nav_log) # "ok"
          => terminatedBy = "NavigationFailed"
    /\ pc = "observe" /\ observations = 0 => nav_log # <<>> /\ Last(nav_log) = "ok"
    /\ terminatedBy = "NavigationFailed"
          => /\ observations = 0 /\ html = 0
             /\ calls = <<>> /\ call_obs = <<>>
             /\ acts = <<>> /\ decisions = <<>>
             /\ saved = <<>>
             /\ pc \in {"finally", "return", "main", "exit"}
             /\ RunOver => quits = 1 /\ thread_local_browser \in quitted

\* a run ended by an invalid page, its browser quit
C15_Witness ==
    /\ RunOver
    /\ terminatedBy = "NavigationFailed"
    /\ Last(nav_log) = "invalid"
    /\ quits = 1

(***************************************************************************)
(* C16: the steps of one loop are sequential and per iteration: every      *)
(* decision call (visual and fallback) is given the capture made in the    *)
(* same iteration, every action is the one decided in the same iteration,  *)
(* and after a successful action a new capture is made before the next     *)
(* decision call; no call is given the capture of an earlier iteration.    *)
(***************************************************************************)
C16_SequentialPerIteration ==
    /\ Len(call_obs) = Len(calls)
    /\ \A k \in 1..Len(call_obs) : call_obs[k] = observations
    /\ pc \in {"visual", "html_only", "act"}
          => /\ observations = i + 1
             /\ html = observations
             /\ Len(decisions) = i /\ Len(acts) = i
    /\ pc = "observe" => observations = i /\ Len(acts) = i /\ Len(decisions) = i
    /\ pc = "visual" => calls = <<>>
    /\ pc = "act" => calls # <<>>
    /\ \A k \in 1..Len(acts) : acts[k] = decisions[k]
    /\ Len(decisions) <= observations

\* the fallback call of the third iteration, made on the third capture
C16_Witness ==
    /\ pc = "act"
    /\ i = 2
    /\ calls = <<"visual", "html_only">>
    /\ call_obs = <<3, 3>>
    /\ Len(acts) = 2

\* url is a non-empty string that begins with "http"
HasHttpPrefix(url) ==
    /\ url # NoneValue
    /\ Len(url) >= 4
    /\ url[1] = "h" /\ url[2] = "t" /\ url[3] = "t" /\ url[4] = "p"

(***************************************************************************)
(* C18: process_tariff_source is invoked only on sources whose link is a   *)
(* non-empty string beginning with "http"; a source whose link is missing, *)
(* empty or begins otherwise is skipped: the step that skips it obtains no *)
(* browser, navigates nowhere and saves nothing, and the sources after it  *)
(* are still processed.                                                    *)
(***************************************************************************)
C18_OnlyValidSourcesInvoked ==
    /\ [](/\ \A k \in invoked : HasHttpPrefix(batch[k].link)
          /\ \A k \in skipped : ~HasHttpPrefix(batch[k].link)
          /\ invoked \cup skipped = 1..idx
          /\ invoked \cap skipped = {}
          /\ pc = "exit" => idx = Len(batch))
    /\ [][skipped' # skipped
             => /\ pc = "main" /\ pc' = "main"
                /\ UNCHANGED <<pool_vars, nav_vars, loop_vars, run_vars, invoked, threw>>]_vars

\* a source with an ftp link was skipped and the source after it was run
C18_Witness ==
    /\ pc = "exit"
    /\ skipped = {1}
    /\ invoked = {2}
    /\ startswith(batch[1].link, <<"f", "t", "p">>)

\* the decision in hand is an object with members, none of which is a
\* click or a type action
NeitherClickNorType(obj) ==
    /\ obj.t = "dict"
    /\ Len(obj.items) > 0
    /\ \A k \in 1..Len(obj.items) : obj.items[k] \notin {"action:click", "action:type"}

(***************************************************************************)
(* C19: a decision that is an object whose action is neither "click" nor   *)
(* "type" ends the loop with ActionFailed in that iteration: no click or   *)
(* type primitive is invoked and the model is not called again.            *)
(***************************************************************************)
C19_UnknownActionEndsRun ==
    /\ calls # <<>> /\ NeitherClickNorType(action_obj) /\ pc # "act"
          => /\ terminatedBy = "ActionFailed"
             /\ decisions = Append(acts, "unknown")
    /\ decisions # <<>> /\ Last(decisions) = "unknown"
          => /\ terminatedBy = "ActionFailed"
             /\ Len(acts) = i
             /\ Len(decisions) = i + 1
             /\ observations = i + 1
             /\ Len(calls) \in {1, 2}
             /\ \A k \in 1..Len(call_obs) : call_obs[k] = i + 1
             /\ pc \in {"finally", "return", "main", "exit"}

\* a scroll decision in the second iteration, after one click
C19_Witness ==
    /\ RunOver
    /\ get_action(action_obj.items) = "scroll"
    /\ acts = <<"click">>
    /\ decisions = <<"click", "unknown">>
    /\ terminatedBy = "ActionFailed"

(***************************************************************************)
(* C20: every browser on which the loop navigates, captures, clicks or     *)
(* types is one on which quit() has not been called: get_thread_browser    *)
(* never returns a cached browser that an earlier run already quit.        *)
(***************************************************************************)
C20_NoQuitSessionHandedOut ==
    InTry => thread_local_browser \notin quitted

\* the threads that are inside Browser creation (in the retry loop)
Creating == { w \in Workers : wpc[w] = "Browser" }

\* the Browser objects a thread constructed
CreatedBy(w) == { b \in 1..Len(owner) : owner[b] = w }

(***************************************************************************)
(* C14: however the threads that call get_thread_browser interleave, at    *)
(* most one thread is inside Browser creation at a time, each thread       *)
(* constructs at most one Browser, no Browser is returned to a thread      *)
(* other than the one that constructed it, and later calls of a thread     *)
(* return its same cached Browser without constructing another.            *)
(***************************************************************************)
C14_CreationExclusiveAndOwned ==
    /\ Cardinality(Creating) <= 1
    /\ created = Len(owner)
    /\ \A w \in Workers :
          /\ Cardinality(CreatedBy(w)) <= 1
          /\ thread_local[w] # 0 => CreatedBy(w) = {thread_local[w]}
          /\ \A k \in 1..Len(got[w]) :
                /\ got[w][k] \in CreatedBy(w)
                /\ got[w][k] = got[w][1]
          /\ Len(got[w]) <= gets[w]

\* both threads called twice and each got its own Browser both times; the
\* second thread constructed its Browser first
C14_Witness ==
    /\ got["w1"] = <<2, 2>>
    /\ got["w2"] = <<1, 1>>
    /\ owner = <<"w2", "w1">>

\* one thread waits at the with statement while the other is creating
C14_WitnessWaiting ==
    /\ wpc["w1"] = "with"
    /\ wpc["w2"] = "Browser"
    /\ wattempt["w2"] = 1

(***************************************************************************)
(* C17: get_thread_browser makes at most max_retries = 3 Browser()         *)
(* attempts, sleeping a fixed 2 between failed attempts; when all three    *)
(* fail it raises instead of returning, leaves no Browser cached for the   *)
(* thread, and the lock is released on success and on exhaustion alike, so *)
(* a thread waiting for the lock does not wait forever.                    *)
(***************************************************************************)
C17_BoundedRetriesLockReleased ==
    /\ [](\A w \in Workers :
            /\ Len(wlog[w]) <= 3
            /\ \A k \in 1..(Len(wlog[w]) - 1) : wlog[w][k] = "failed"
            /\ \A k \in 1..Len(wsleeps[w]) : wsleeps[w][k] = 2
            /\ wpc[w] = "Browser" => Len(wsleeps[w]) = Len(wlog[w])
            /\ wpc[w] # "Browser" /\ wlog[w] # <<>>
                  => Len(wsleeps[w]) = Len(wlog[w]) - 1
            /\ wlog[w] = <<"failed", "failed", "failed">> <=> wresult[w] = "raised"
            /\ wresult[w] = "raised"
                  => /\ thread_local[w] = 0
                     /\ wpc[w] = "idle"
                     /\ Len(got[w]) < gets[w]
            /\ wresult[w] = "returned" => thread_local[w] # 0)
    /\ [](browser_init_lock <=> Creating # {})
    /\ \A w \in Workers : (wpc[w] = "with") ~> (wpc[w] = "Browser")

\* one thread exhausted its three attempts while the other waited, and the
\* other then took the lock
C17_Witness ==
    /\ wresult["w1"] = "raised"
    /\ wsleeps["w1"] = <<2, 2>>
    /\ thread_local["w1"] = 0
    /\ wpc["w2"] = "Browser"
    /\ gets["w1"] = 1

\* the spans of a text that are one well-formed JSON array or object
WellFormedSpans(text) ==
    { sp \in (1..Len(text)) \X (1..Len(text)) :
        /\ sp[1] < sp[2]
        /\ text[sp[1]] \in {"[", "{"}
        /\ json_loads(SubSeq(text, sp[1], sp[2])).ok }

\* those that are not part of a larger one
OutermostSpans(text) ==
    { sp \in WellFormedSpans(text) :
        ~\E other \in WellFormedSpans(text) :
            /\ other # sp
            /\ other[1] <= sp[1] /\ sp[2] <= other[2] }

\* the first well-formed span of a text: the one that starts leftmost
FirstWellFormed(text) ==
    CHOOSE sp \in WellFormedSpans(text) :
        \A other \in WellFormedSpans(text) : sp[1] <= other[1]

(***************************************************************************)
(* C13: for a text that is prose, possibly with brackets and braces of its *)
(* own, around exactly one well-formed JSON array or object, the value     *)
(* returned is the value of the first well-formed span and nothing more;   *)
(* {} is returned for want of a value only when the text has no            *)
(* well-formed span.                                                       *)
(***************************************************************************)
C13_FirstWellFormedSpan ==
    pc = "returned" /\ Cardinality(OutermostSpans(resp.text)) = 1
        => LET sp == FirstWellFormed(resp.text)
               value == json_loads(SubSeq(resp.text, sp[1], sp[2])).value
           IN  /\ action_obj.t = value.t
               /\ action_obj.items = value.items

\* save_results itself raised: the run ended by an exception after the
\* array was dispatched
SaveRaised ==
    /\ terminatedBy = "Exception"
    /\ decisions # <<>>
    /\ Last(decisions) = "extract"

\* the JSON value in the response the latest decision call received
ReturnedValue ==
    json_loads(SubSeq(resp.text, re_search(resp.text)[1], re_search(resp.text)[2])).value

(***************************************************************************)
(* C21: within one run save_results is called at most once, only on the    *)
(* branch that received an array, with exactly the array the model         *)
(* returned in that iteration, and before browser.quit(); when             *)
(* save_results raises, browser.quit() is still called once and the        *)
(* exception reaches the except clause of the source loop.                 *)
(***************************************************************************)
C21_SaveOnceBeforeQuit ==
    /\ [](/\ Len(saved) <= 1
          /\ saved # <<>>
                => /\ terminatedBy \in {"Extracted", "Exception"}
                   /\ Last(decisions) = "extract"
                   /\ Len(decisions) = i + 1
                   /\ is_list(action_obj)
                   /\ saved[1].market = market
                   /\ saved[1].updates = action_obj.items
                   /\ ~resp.error
                   /\ ReturnedValue.t = "list"
                   /\ saved[1].updates = ReturnedValue.items
          /\ terminatedBy = "Extracted" => Len(saved) = 1
          /\ SaveRaised
                => /\ Len(saved) = 1
                   /\ pc = "finally" => quits = 0
                   /\ RunOver => quits = 1 /\ thread_local_browser \in quitted
                   /\ pc \in {"main", "exit"} => \E k \in threw : batch[k].market = market)
    /\ [][saved' # saved /\ saved' # <<>>
             => /\ quits = 0 /\ quits' = 0
                /\ thread_local_browser \notin quitted
                /\ pc' = "finally"]_vars

\* save_results raised on a two-update array; the browser was quit and the
\* source loop caught the exception
C21_Witness ==
    /\ pc = "main"
    /\ SaveRaised
    /\ Len(saved) = 1
    /\ Len(saved[1].updates) = 2
    /\ quits = 1
    /\ idx \in threw

\* the run of process_tariff_source before the current position is over
\* and, if it had a browser, has quit it
PreviousRunReleased ==
    /\ RunOver
    /\ \/ terminatedBy = "InitializationError"
       \/ quits = 1 /\ thread_local_browser \in quitted

(***************************************************************************)
(* C22: the source loop takes the sources one after another in list order: *)
(* the batch holds only active sources (status "1") and at most the first  *)
(* 2 of them, cut before the URL test, so that a skipped source uses up    *)
(* one of the 2 places; process_tariff_source is entered for a source only *)
(* when the run for the one before has quit its browser; at most 2 runs    *)
(* per batch.                                                              *)
(***************************************************************************)
C22_SequentialTruncatedBatch ==
    /\ [](/\ Len(batch) <= 2
          /\ \A k \in 1..Len(batch) : batch[k].status = "1"
          /\ idx <= Len(batch)
          /\ invoked \cup skipped = 1..idx
          /\ Cardinality(invoked) + Cardinality(skipped) <= 2
          /\ pc \notin {"main", "exit"} => idx \in invoked
          /\ pc = "exit" => idx = Len(batch))
    /\ [][batch' = batch /\ idx' \in {idx, idx + 1}]_vars
    /\ [][idx' # idx => pc = "main"]_vars
    /\ [][invoked' # invoked
             => /\ invoked' = invoked \cup {idx + 1}
                /\ pc = "main"
                /\ invoked # {} => PreviousRunReleased]_vars

\* the run for the second source is entered after the first run returned
\* normally, having quit the browser
C22_Witness ==
    /\ pc = "get_thread_browser"
    /\ idx = 2
    /\ invoked = {1, 2}
    /\ quitted = {1}
    /\ threw = {}

\* a batch of two whose second place went to a source that was skipped
C22_WitnessSkippedSlot ==
    /\ pc = "exit"
    /\ Len(batch) = 2
    /\ invoked = {1}
    /\ skipped = {2}

====
